---- MODULE Spec2Model ----
(***************************************************************************)
(* rss2socials: the poll loop of internal/rss2socials (Run, handlePost),   *)
(* the SQLite change store of internal/db, the content hasher of           *)
(* internal/rss, the formatter and publisher of internal/mastodon, the     *)
(* secondary publishers internal/bluesky and internal/threads, and the     *)
(* configuration loader pkg/config.                                        *)
(*                                                                         *)
(* Go strings that the code inspects character by character (links,        *)
(* titles, categories, contents, published texts) are sequences of         *)
(* one-character strings; credentials, which the code only compares with   *)
(* "", are TLA+ strings.                                                   *)
(***************************************************************************)
EXTENDS Integers, Sequences, FiniteSets, TLC

VARIABLES
    pc,            \* position of the process: init, prerun, run, fetch, items, sleep,
                   \* exited, or blocked in a call that never returns
    conf,          \* config.Config as held by cmd.conf / Run's parameter
    db,            \* rows of table tooted_posts in ./tooted_posts.db
    now,           \* wall clock, in minutes since the process started (rows of
                   \* an earlier run carry a time before that)
    posts,         \* the batch returned by the last rss.CheckRSSFeed
    idx,           \* index of the next post of the batch (the range loop)
    cycle,         \* number of completed sleeps
    failedFetches, \* consecutive failed CheckRSSFeed calls with no sleep between
    last,          \* what the loop body did with the latest post, and the failed
                   \* attempt of the cycle before that it repeats, if any; after
                   \* Run's setup, the configuration Run was called with
    published,     \* per link: content most recently accepted by Mastodon
    recorded,      \* per link: content of the latest accepted toot whose store write succeeded
    prevFail,      \* per link: the failed toot of the previous / current cycle
    secFailed,     \* per link: the secondaries that failed for the content the
                   \* feed carries for it
    debug,         \* cmd's variable of the --debug flag
    logLevel       \* the level of the logrus standard logger

vars == <<pc, conf, db, now, posts, idx, cycle, failedFetches, last,
          published, recorded, prevFail, secFailed,
                   debug, logLevel>>

----------------------------------------------------------------------------
(* Bounds of the exploration *)

MaxCycles == 2
MaxFailedFetches == 1
MaxFeedLen == 2
DigestBytes == 4

----------------------------------------------------------------------------
(* Inputs *)

TechLink == <<"h","t","t","p","s",":","/","/","x",".","c","o","m","/","a","/","t","e","c","h","-","p","o","s","t">>
OtherLink == <<"h","t","t","p","s",":","/","/","x",".","c","o","m","/","t","e","c","h","/","o","t","h","e","r">>
ThoughtsTitle == <<"T","h","o","u","g","h","t","s"," ","o","n"," ","X">>
NewThingTitle == <<"N","e","w"," ","T","h","i","n","g">>
Body == <<"b","o","d","y">>
Updated == <<"u","p","d","a","t","e","d">>
TechCategory == <<"t","e","c","h">>
Thoughts == <<"T","h","o","u","g","h","t","s">>

Links == {TechLink, OtherLink}
Titles == {ThoughtsTitle, NewThingTitle}
Contents == {Body, Updated}

NoContent == <<>>

\* rss.RSSItem; the feed gives each link its title.  The post at TechLink
\* is edited between fetches (either content), the one at OtherLink is not.
TitleOf(link) == IF link = TechLink THEN ThoughtsTitle ELSE NewThingTitle

RSSItem ==
    {[Title |-> TitleOf(l), Link |-> l, Content |-> c] : l \in Links, c \in Contents}
    \ {[Title |-> TitleOf(OtherLink), Link |-> OtherLink, Content |-> Updated]}

\* the batches the feed source can return: one item per link, in the order
\* the site lists its posts
Feeds ==
    {f \in UNION {[1..n -> RSSItem] : n \in 0..MaxFeedLen} :
        \A i, j \in DOMAIN f : i < j => f[i].Link = TechLink /\ f[j].Link = OtherLink}

----------------------------------------------------------------------------
(* internal/rss: the content hasher *)

\* sha256.Sum256([]byte(content)): the leading bytes of the real digests
HashContent(content) ==
    SubSeq(CASE content = Body    -> <<35, 13, 131, 88, 220, 142>>
             [] content = Updated -> <<39, 235, 94, 81, 80, 108>>,
           1, DigestBytes)

HexDigits == <<"0","1","2","3","4","5","6","7","8","9","a","b","c","d","e","f">>

\* fmt.Sprintf("%x", digest): two lower-case hexadecimal digits per byte
RECURSIVE Hex(_)
Hex(bytes) ==
    IF bytes = <<>> THEN <<>>
    ELSE <<HexDigits[(Head(bytes) \div 16) + 1], HexDigits[(Head(bytes) % 16) + 1]>>
         \o Hex(Tail(bytes))

----------------------------------------------------------------------------
(* internal/db: the change store *)

\* sql.Open on ./tooted_posts.db and CREATE TABLE IF NOT EXISTS tooted_posts:
\* the rows an earlier run left in the file are kept
InitDB(file) == file

\* the database file the process finds: none, or the one an earlier run left
\* after it tooted and stored TechLink with content Body
EarlierRun ==
    [db |-> {[link |-> TechLink, content_hash |-> Hex(HashContent(Body)),
              timestamp |-> 0 - 1]},
     content |-> [l \in Links |-> IF l = TechLink THEN Body ELSE NoContent]]

FirstRun == [db |-> {}, content |-> [l \in Links |-> NoContent]]

\* variant: a row is added and the row of the link, if any, stays
StoreTootedPost_AddsRow(d, link, content, t, xerr) ==
    IF xerr THEN [db |-> d, err |-> TRUE]
    ELSE [db |-> d \cup {[link |-> link,
                          content_hash |-> Hex(HashContent(content)),
                          timestamp |-> t]},
          err |-> FALSE]

\* variant: INSERT OR IGNORE, an existing row is kept
StoreTootedPost_InsertOrIgnore(d, link, content, t, xerr) ==
    IF xerr THEN [db |-> d, err |-> TRUE]
    ELSE IF \E r \in d : r.link = link THEN [db |-> d, err |-> FALSE]
    ELSE [db |-> d \cup {[link |-> link,
                          content_hash |-> Hex(HashContent(content)),
                          timestamp |-> t]},
          err |-> FALSE]

\* INSERT OR REPLACE INTO tooted_posts(link, content_hash, timestamp);
\* xerr: DB.Exec returns an error and writes nothing
StoreTootedPost(d, link, content, t, xerr) ==
    IF xerr THEN [db |-> d, err |-> TRUE]
    ELSE [db |-> {r \in d : r.link # link}
                  \cup {[link |-> link,
                         content_hash |-> Hex(HashContent(content)),
                         timestamp |-> t]},
          err |-> FALSE]

\* variant: the stored hash is compared with the content, not with its hash
HasPostChanged_RawCompare(d, link, content, qerr) ==
    LET rows == {r \in d : r.link = link}
    IN  IF qerr THEN [exists |-> FALSE, updated |-> FALSE, err |-> TRUE, db |-> d]
        ELSE IF rows = {}
        THEN [exists |-> FALSE, updated |-> FALSE, err |-> FALSE, db |-> d]
        ELSE LET storedHash == (CHOOSE r \in rows : TRUE).content_hash
             IN  IF storedHash # content
                 THEN [exists |-> TRUE, updated |-> TRUE, err |-> FALSE, db |-> d]
                 ELSE [exists |-> TRUE, updated |-> FALSE, err |-> FALSE, db |-> d]

\* variant: a link that has no row is inserted by the lookup
HasPostChanged_InsertsOnMiss(d, link, content, qerr) ==
    LET rows == {r \in d : r.link = link}
    IN  IF qerr THEN [exists |-> FALSE, updated |-> FALSE, err |-> TRUE, db |-> d]
        ELSE IF rows = {}
        THEN [exists |-> FALSE, updated |-> FALSE, err |-> FALSE,
              db |-> d \cup {[link |-> link,
                              content_hash |-> Hex(HashContent(content)),
                              timestamp |-> 0]}]
        ELSE LET storedHash == (CHOOSE r \in rows : TRUE).content_hash
                 newHash == Hex(HashContent(content))
             IN  IF storedHash # newHash
                 THEN [exists |-> TRUE, updated |-> TRUE, err |-> FALSE, db |-> d]
                 ELSE [exists |-> TRUE, updated |-> FALSE, err |-> FALSE, db |-> d]

\* SELECT content_hash FROM tooted_posts WHERE link = ?, then the comparison
\* with the hash of the content; qerr: row.Scan returns an error other than
\* sql.ErrNoRows.  The db field is the table after the call.
HasPostChanged(d, link, content, qerr) ==
    LET rows == {r \in d : r.link = link}
    IN  IF qerr THEN [exists |-> FALSE, updated |-> FALSE, err |-> TRUE, db |-> d]
        ELSE IF rows = {}
        THEN [exists |-> FALSE, updated |-> FALSE, err |-> FALSE, db |-> d]
        ELSE LET storedHash == (CHOOSE r \in rows : TRUE).content_hash
                 newHash == Hex(HashContent(content))
             IN  IF storedHash # newHash
                 THEN [exists |-> TRUE, updated |-> TRUE, err |-> FALSE, db |-> d]
                 ELSE [exists |-> TRUE, updated |-> FALSE, err |-> FALSE, db |-> d]

----------------------------------------------------------------------------
(* internal/mastodon: the formatter and the primary publisher *)

\* strings.HasPrefix
HasPrefix(s, prefix) ==
    /\ Len(prefix) <= Len(s)
    /\ SubSeq(s, 1, Len(prefix)) = prefix

NewPrefix == <<"N","e","w"," ","b","l","o","g"," ","p","o","s","t",":"," ">>
Dash == <<" ","-"," ">>
StatusEq == <<"s","t","a","t","u","s","=">>

\* variant: any configured category gives the content format, whatever the title
GetTootContent_AnyTitle(post, skipPrefixCategories) ==
    IF skipPrefixCategories # <<>>
    THEN post.Content \o Dash \o post.Link
    ELSE NewPrefix \o post.Link

\* the first category of the list that prefixes the title decides
GetTootContent(post, skipPrefixCategories) ==
    IF \E i \in DOMAIN skipPrefixCategories :
           HasPrefix(post.Title, skipPrefixCategories[i])
    THEN post.Content \o Dash \o post.Link
    ELSE NewPrefix \o post.Link

\* The outcomes of one HTTP exchange: no response, a status other than 200,
\* 200 with a body that does not decode, 200 with a good body.
NetErr == "neterr"
Non200 == "non200"
BadBody == "badbody"
OK200 == "ok"
\* the destination takes the request and never answers
Hang == "hang"

\* http.Client{Timeout: 10 * time.Second}, in seconds
ClientTimeout == 10
\* http.DefaultClient and &http.Client{}: a Timeout of zero means no timeout
NoTimeout == 0

\* what one exchange gives the caller: a client with a timeout turns a
\* destination that never answers into an error, one without waits forever
ClientDo(timeout, outcome) ==
    IF outcome = Hang /\ timeout > 0 THEN NetErr ELSE outcome

\* variant: the response status is not looked at
TootPost_NoStatusCheck(mastodonURL, mastodonToken, content, http) ==
    IF mastodonURL = "" \/ mastodonToken = ""
    THEN [err |-> TRUE, sent |-> <<>>, hung |-> FALSE]
    ELSE LET req == [to |-> "mastodon", path |-> "/api/v1/statuses",
                     body |-> StatusEq \o content]
             resp == ClientDo(ClientTimeout, http)
         IN  IF resp = Hang THEN [err |-> FALSE, sent |-> <<req>>, hung |-> TRUE]
             ELSE IF resp = NetErr THEN [err |-> TRUE, sent |-> <<req>>, hung |-> FALSE]
             ELSE [err |-> FALSE, sent |-> <<req>>, hung |-> FALSE]

\* variant: the request is sent whatever the URL and the token are
TootPost_NoCredentialCheck(mastodonURL, mastodonToken, content, http) ==
    LET req == [to |-> "mastodon", path |-> "/api/v1/statuses",
                body |-> StatusEq \o content]
        resp == ClientDo(ClientTimeout, http)
    IN  IF resp = Hang THEN [err |-> FALSE, sent |-> <<req>>, hung |-> TRUE]
        ELSE IF resp = NetErr THEN [err |-> TRUE, sent |-> <<req>>, hung |-> FALSE]
        ELSE IF resp # OK200 THEN [err |-> TRUE, sent |-> <<req>>, hung |-> FALSE]
        ELSE [err |-> FALSE, sent |-> <<req>>, hung |-> FALSE]

\* TootPost: sent is the sequence of requests that went out
TootPost(mastodonURL, mastodonToken, content, http) ==
    IF mastodonURL = "" \/ mastodonToken = ""
    THEN [err |-> TRUE, sent |-> <<>>, hung |-> FALSE]
    ELSE LET req == [to |-> "mastodon", path |-> "/api/v1/statuses",
                     body |-> StatusEq \o content]
             resp == ClientDo(ClientTimeout, http)
         IN  IF resp = Hang THEN [err |-> FALSE, sent |-> <<req>>, hung |-> TRUE]
             ELSE IF resp = NetErr THEN [err |-> TRUE, sent |-> <<req>>, hung |-> FALSE]
             ELSE IF resp # OK200 THEN [err |-> TRUE, sent |-> <<req>>, hung |-> FALSE]
             ELSE [err |-> FALSE, sent |-> <<req>>, hung |-> FALSE]

----------------------------------------------------------------------------
(* internal/bluesky and internal/threads: the secondary publishers *)

\* variant: the status of the createRecord response is not looked at
BlueskyPost_NoRecordStatusCheck(handle, password, pds, content, http1, http2) ==
    IF handle = "" \/ password = ""
    THEN [err |-> TRUE, sent |-> <<>>, hung |-> FALSE]
    ELSE LET r1 == [to |-> pds, path |-> "/xrpc/com.atproto.server.createSession",
                    body |-> <<>>]
             r2 == [to |-> pds, path |-> "/xrpc/com.atproto.repo.createRecord",
                    body |-> content]
             resp1 == ClientDo(NoTimeout, http1)
             resp2 == ClientDo(NoTimeout, http2)
         IN  IF resp1 = Hang THEN [err |-> FALSE, sent |-> <<r1>>, hung |-> TRUE]
             ELSE IF resp1 # OK200 THEN [err |-> TRUE, sent |-> <<r1>>, hung |-> FALSE]
             ELSE IF resp2 = Hang THEN [err |-> FALSE, sent |-> <<r1, r2>>, hung |-> TRUE]
             ELSE IF resp2 = NetErr THEN [err |-> TRUE, sent |-> <<r1, r2>>, hung |-> FALSE]
             ELSE [err |-> FALSE, sent |-> <<r1, r2>>, hung |-> FALSE]

\* bluesky.Post: createSession, then createRecord with the session's token
BlueskyPost(handle, password, pds, content, http1, http2) ==
    IF handle = "" \/ password = ""
    THEN [err |-> TRUE, sent |-> <<>>, hung |-> FALSE]
    ELSE LET r1 == [to |-> pds, path |-> "/xrpc/com.atproto.server.createSession",
                    body |-> <<>>]
             r2 == [to |-> pds, path |-> "/xrpc/com.atproto.repo.createRecord",
                    body |-> content]
             resp1 == ClientDo(NoTimeout, http1)
             resp2 == ClientDo(NoTimeout, http2)
         IN  IF resp1 = Hang THEN [err |-> FALSE, sent |-> <<r1>>, hung |-> TRUE]
             ELSE IF resp1 = NetErr THEN [err |-> TRUE, sent |-> <<r1>>, hung |-> FALSE]
             ELSE IF resp1 = Non200 THEN [err |-> TRUE, sent |-> <<r1>>, hung |-> FALSE]
             ELSE IF resp1 = BadBody THEN [err |-> TRUE, sent |-> <<r1>>, hung |-> FALSE]
             ELSE IF resp2 = Hang THEN [err |-> FALSE, sent |-> <<r1, r2>>, hung |-> TRUE]
             ELSE IF resp2 = NetErr THEN [err |-> TRUE, sent |-> <<r1, r2>>, hung |-> FALSE]
             ELSE IF resp2 = Non200 THEN [err |-> TRUE, sent |-> <<r1, r2>>, hung |-> FALSE]
             ELSE [err |-> FALSE, sent |-> <<r1, r2>>, hung |-> FALSE]

\* threads.Post: create a media container, then publish it
ThreadsPost(userID, token, content, http1, http2) ==
    IF userID = "" \/ token = ""
    THEN [err |-> TRUE, sent |-> <<>>, hung |-> FALSE]
    ELSE LET r1 == [to |-> "threads", path |-> "/threads", body |-> content]
             r2 == [to |-> "threads", path |-> "/threads_publish", body |-> <<>>]
             resp1 == ClientDo(NoTimeout, http1)
             resp2 == ClientDo(NoTimeout, http2)
         IN  IF resp1 = Hang THEN [err |-> FALSE, sent |-> <<r1>>, hung |-> TRUE]
             ELSE IF resp1 = NetErr THEN [err |-> TRUE, sent |-> <<r1>>, hung |-> FALSE]
             ELSE IF resp1 = Non200 THEN [err |-> TRUE, sent |-> <<r1>>, hung |-> FALSE]
             ELSE IF resp1 = BadBody THEN [err |-> TRUE, sent |-> <<r1>>, hung |-> FALSE]
             ELSE IF resp2 = Hang THEN [err |-> FALSE, sent |-> <<r1, r2>>, hung |-> TRUE]
             ELSE IF resp2 = NetErr THEN [err |-> TRUE, sent |-> <<r1, r2>>, hung |-> FALSE]
             ELSE IF resp2 = Non200 THEN [err |-> TRUE, sent |-> <<r1, r2>>, hung |-> FALSE]
             ELSE [err |-> FALSE, sent |-> <<r1, r2>>, hung |-> FALSE]

----------------------------------------------------------------------------
(* pkg/config: the configuration *)

Set(v) == <<v>>
Unset == <<>>

\* env.Parse: the value of a variable, or the field's envDefault
Lookup(e, default) == IF e = Unset THEN default ELSE e[1]

DefaultInterval == 60

\* env.Parse(&conf) over the process environment e
ParseEnv(e) ==
    [MastodonURL          |-> Lookup(e.MASTODON_URL, ""),
     MastodonAccessToken  |-> Lookup(e.MASTODON_ACCESS_TOKEN, ""),
     GotifyURL            |-> Lookup(e.GOTIFY_URL, ""),
     GotifyToken          |-> Lookup(e.GOTIFY_TOKEN, ""),
     Debug                |-> Lookup(e.DEBUG, FALSE),
     FeedURL              |-> Lookup(e.FEED_URL, ""),
     Interval             |-> Lookup(e.INTERVAL, DefaultInterval),
     Category             |-> Lookup(e.CATEGORY, <<>>),
     SkipPrefixCategories |-> Lookup(e.SKIP_PREFIX_CATEGORIES, <<Thoughts>>),
     BlueskyHandle        |-> Lookup(e.BLUESKY_HANDLE, ""),
     BlueskyPassword      |-> Lookup(e.BLUESKY_PASSWORD, ""),
     BlueskyPDS           |-> Lookup(e.BLUESKY_PDS, "https://bsky.social"),
     ThreadsUserID        |-> Lookup(e.THREADS_USER_ID, ""),
     ThreadsToken         |-> Lookup(e.THREADS_TOKEN, "")]

\* variant: the access token of Mastodon is not asked for
MissingRequired_NoTokenCheck(c) ==
    \/ c.MastodonURL = ""
    \/ c.GotifyURL = ""
    \/ c.GotifyToken = ""

\* variant: the URL and the token of Gotify are not asked for
MissingRequired_NoGotifyCheck(c) ==
    \/ c.MastodonURL = ""
    \/ c.MastodonAccessToken = ""

\* the validation at the end of GetEnvVars: TRUE when it calls os.Exit(1)
MissingRequired(c) ==
    \/ c.MastodonURL = ""
    \/ c.MastodonAccessToken = ""
    \/ c.GotifyURL = ""
    \/ c.GotifyToken = ""

\* the zero value of config.Config
ZeroConfig ==
    [MastodonURL |-> "", MastodonAccessToken |-> "", GotifyURL |-> "",
     GotifyToken |-> "", Debug |-> FALSE, FeedURL |-> "", Interval |-> 0,
     Category |-> <<>>, SkipPrefixCategories |-> <<>>, BlueskyHandle |-> "",
     BlueskyPassword |-> "", BlueskyPDS |-> "", ThreadsUserID |-> "",
     ThreadsToken |-> ""]

Opt(v) == {Unset, Set(v)}

\* an environment with everything the loop needs and no option set
BaseEnv ==
    [MASTODON_URL |-> Set("https://mastodon.example"),
     MASTODON_ACCESS_TOKEN |-> Set("mtoken"),
     GOTIFY_URL |-> Set("https://gotify.example"),
     GOTIFY_TOKEN |-> Set("gtoken"),
     DEBUG |-> Unset, FlagDebug |-> FALSE,
     FEED_URL |-> Set("https://x.com/feed.xml"),
     INTERVAL |-> Unset,
     CATEGORY |-> Unset,
     SKIP_PREFIX_CATEGORIES |-> Unset,
     BLUESKY_HANDLE |-> Unset,
     BLUESKY_PASSWORD |-> Unset,
     BLUESKY_PDS |-> Unset,
     THREADS_USER_ID |-> Unset,
     THREADS_TOKEN |-> Unset]

LowerThoughts == <<"t","h","o","u","g","h","t","s">>

\* the environments (and --debug flag) the process is started with: every
\* combination of the required variables, every interval, every combination
\* of the category and skip-prefix options, every combination of the
\* credentials of one secondary, or both secondaries complete, and DEBUG
\* with and without the flag
Envs ==
    {[BaseEnv EXCEPT !.MASTODON_URL = mu, !.MASTODON_ACCESS_TOKEN = mt,
                     !.GOTIFY_URL = gu, !.GOTIFY_TOKEN = gt, !.FEED_URL = fu] :
        mu \in Opt("https://mastodon.example"), mt \in Opt("mtoken"),
        gu \in Opt("https://gotify.example"), gt \in Opt("gtoken"),
        fu \in Opt("https://x.com/feed.xml")}
    \cup
    {[BaseEnv EXCEPT !.INTERVAL = iv] : iv \in {Set(0 - 5), Set(0), Set(30)}}
    \cup
    {[BaseEnv EXCEPT !.CATEGORY = ca, !.SKIP_PREFIX_CATEGORIES = sk] :
        ca \in Opt(TechCategory),
        sk \in {Unset, Set(<<>>), Set(<<LowerThoughts>>)}}
    \cup
    {[BaseEnv EXCEPT !.BLUESKY_HANDLE = bh, !.BLUESKY_PASSWORD = bp] :
        bh \in Opt("me.bsky.social"), bp \in Opt("app-password")}
    \cup
    {[BaseEnv EXCEPT !.THREADS_USER_ID = tu, !.THREADS_TOKEN = tt] :
        tu \in Opt("1234"), tt \in Opt("ttoken")}
    \cup
    {[BaseEnv EXCEPT !.BLUESKY_HANDLE = Set("me.bsky.social"),
                     !.BLUESKY_PASSWORD = Set("app-password"),
                     !.THREADS_USER_ID = Set("1234"),
                     !.THREADS_TOKEN = Set("ttoken")]}
    \cup
    {[BaseEnv EXCEPT !.DEBUG = Set(TRUE)]}
    \cup
    {[BaseEnv EXCEPT !.DEBUG = d, !.FlagDebug = TRUE, !.FEED_URL = Unset] :
        d \in Opt(TRUE)}

----------------------------------------------------------------------------
(* internal/rss2socials: the orchestrator *)

\* path.Base: trailing slashes stripped, then what follows the last slash
RECURSIVE StripSlashes(_)
StripSlashes(p) ==
    IF Len(p) > 0 /\ p[Len(p)] = "/" THEN StripSlashes(SubSeq(p, 1, Len(p) - 1))
    ELSE p

pathBase(p) ==
    IF p = <<>> THEN <<".">>
    ELSE LET q == StripSlashes(p)
             slashes == {i \in 1..Len(q) : q[i] = "/"}
             rest == IF slashes = {} THEN q
                     ELSE SubSeq(q, (CHOOSE i \in slashes : \A j \in slashes : j <= i) + 1,
                                 Len(q))
         IN  IF rest = <<>> THEN <<"/">> ELSE rest

\* strings.Contains
Contains(str, substr) ==
    \E i \in 1..(Len(str) - Len(substr) + 1) :
        SubSeq(str, i, i + Len(substr) - 1) = substr

\* variant: the category is looked for in the whole link
Filtered_WholeLink(post, c) ==
    /\ c.Category # <<>>
    /\ ~Contains(post.Link, c.Category)

\* the category filter of the range loop: TRUE when the post is skipped
Filtered(post, c) ==
    /\ c.Category # <<>>
    /\ ~Contains(pathBase(post.Link), c.Category)

\* variant: only a negative interval is replaced
CorrectInterval_OnlyNegative(c) ==
    IF c.Interval < 0 THEN [c EXCEPT !.Interval = 60] ELSE c

\* Run replaces an interval that is not positive by 60 minutes
CorrectInterval(c) ==
    IF c.Interval <= 0 THEN [c EXCEPT !.Interval = 60] ELSE c

UpdatePrefix == <<"B","l","o","g"," ","p","o","s","t"," ","h","a","s"," ","b","e","e","n"," ","u","p","d","a","t","e","d",":"," ">>

\* variant: every item the store knows counts as updated
Classify_KnownIsUpdated(q) ==
    IF q.exists THEN "updated" ELSE "new"

\* the switch of handlePost on (exists, updated)
Classify(q) ==
    IF q.exists /\ q.updated THEN "updated"
    ELSE IF ~q.exists THEN "new"
    ELSE "unchanged"

\* variant: the error of the lookup is logged and handlePost carries on
ReturnsAfterLookup_Never(q) == FALSE

\* handlePost returns after the lookup when HasPostChanged gave an error
ReturnsAfterLookup(q) == q.err

\* variant: the failure is logged and handlePost carries on
ReturnsAfterToot_Never(tp) == FALSE

\* handlePost returns after the primary publish when TootPost gave an error
ReturnsAfterToot(tp) == tp.err

\* variant: a failed Bluesky publish ends handlePost
Secondaries_StopAtFirstFailure(c, tootContent, io) ==
    LET bs == BlueskyPost(c.BlueskyHandle, c.BlueskyPassword, c.BlueskyPDS,
                          tootContent, io.bsky[1], io.bsky[2])
        th == ThreadsPost(c.ThreadsUserID, c.ThreadsToken, tootContent,
                          io.thr[1], io.thr[2])
        bluesky == c.BlueskyHandle # "" /\ c.BlueskyPassword # ""
    IN  (IF bluesky
         THEN <<[op |-> "bluesky.Post", text |-> tootContent,
                 err |-> bs.err, sent |-> bs.sent, hung |-> bs.hung]>>
         ELSE <<>>)
        \o
        (IF c.ThreadsUserID # "" /\ c.ThreadsToken # "" /\ ~(bluesky /\ bs.err)
         THEN <<[op |-> "threads.Post", text |-> tootContent,
                 err |-> th.err, sent |-> th.sent, hung |-> th.hung]>>
         ELSE <<>>)

\* variant: the secondaries get the content of the toot without its first letter
Secondaries_OtherText(c, tootContent, io) ==
    LET text == Tail(tootContent)
        bs == BlueskyPost(c.BlueskyHandle, c.BlueskyPassword, c.BlueskyPDS,
                          text, io.bsky[1], io.bsky[2])
        th == ThreadsPost(c.ThreadsUserID, c.ThreadsToken, text,
                          io.thr[1], io.thr[2])
        bluesky == c.BlueskyHandle # "" /\ c.BlueskyPassword # ""
    IN  (IF bluesky
         THEN <<[op |-> "bluesky.Post", text |-> text,
                 err |-> bs.err, sent |-> bs.sent, hung |-> bs.hung]>>
         ELSE <<>>)
        \o
        (IF c.ThreadsUserID # "" /\ c.ThreadsToken # "" /\ ~(bluesky /\ bs.hung)
         THEN <<[op |-> "threads.Post", text |-> text,
                 err |-> th.err, sent |-> th.sent, hung |-> th.hung]>>
         ELSE <<>>)

\* variant: threads.Post is called before bluesky.Post
Secondaries_ThreadsFirst(c, tootContent, io) ==
    LET bs == BlueskyPost(c.BlueskyHandle, c.BlueskyPassword, c.BlueskyPDS,
                          tootContent, io.bsky[1], io.bsky[2])
        th == ThreadsPost(c.ThreadsUserID, c.ThreadsToken, tootContent,
                          io.thr[1], io.thr[2])
    IN  (IF c.ThreadsUserID # "" /\ c.ThreadsToken # ""
         THEN <<[op |-> "threads.Post", text |-> tootContent,
                 err |-> th.err, sent |-> th.sent, hung |-> th.hung]>>
         ELSE <<>>)
        \o
        (IF c.BlueskyHandle # "" /\ c.BlueskyPassword # ""
         THEN <<[op |-> "bluesky.Post", text |-> tootContent,
                 err |-> bs.err, sent |-> bs.sent, hung |-> bs.hung]>>
         ELSE <<>>)

\* variant: one credential of a secondary is enough to call it
Secondaries_AnyCredential(c, tootContent, io) ==
    LET bs == BlueskyPost(c.BlueskyHandle, c.BlueskyPassword, c.BlueskyPDS,
                          tootContent, io.bsky[1], io.bsky[2])
        th == ThreadsPost(c.ThreadsUserID, c.ThreadsToken, tootContent,
                          io.thr[1], io.thr[2])
    IN  (IF c.BlueskyHandle # "" \/ c.BlueskyPassword # ""
         THEN <<[op |-> "bluesky.Post", text |-> tootContent,
                 err |-> bs.err, sent |-> bs.sent, hung |-> bs.hung]>>
         ELSE <<>>)
        \o
        (IF c.ThreadsUserID # "" \/ c.ThreadsToken # ""
         THEN <<[op |-> "threads.Post", text |-> tootContent,
                 err |-> th.err, sent |-> th.sent, hung |-> th.hung]>>
         ELSE <<>>)

\* the secondary publishers of handlePost, in program order; io carries the
\* outcomes of their HTTP exchanges.  A call that never returns is the last
Secondaries(c, tootContent, io) ==
    LET bs == BlueskyPost(c.BlueskyHandle, c.BlueskyPassword, c.BlueskyPDS,
                          tootContent, io.bsky[1], io.bsky[2])
        th == ThreadsPost(c.ThreadsUserID, c.ThreadsToken, tootContent,
                          io.thr[1], io.thr[2])
        bluesky == c.BlueskyHandle # "" /\ c.BlueskyPassword # ""
    IN  (IF bluesky
         THEN <<[op |-> "bluesky.Post", text |-> tootContent,
                 err |-> bs.err, sent |-> bs.sent, hung |-> bs.hung]>>
         ELSE <<>>)
        \o
        (IF c.ThreadsUserID # "" /\ c.ThreadsToken # "" /\ ~(bluesky /\ bs.hung)
         THEN <<[op |-> "threads.Post", text |-> tootContent,
                 err |-> th.err, sent |-> th.sent, hung |-> th.hung]>>
         ELSE <<>>)

\* handlePost(post, conf) on store d at time t: the store it leaves and the
\* calls it made, in order; hung when its last call never returns.  io
\* carries what the outside answers: qerr and xerr the store's errors, toot
\* the HTTP outcome of the Mastodon request.
handlePost(post, c, d, t, io) ==
    LET q == HasPostChanged(d, post.Link, post.Content, io.qerr)
        lookup == [op |-> "HasPostChanged", link |-> post.Link,
                   content |-> post.Content, exists |-> q.exists,
                   updated |-> q.updated, err |-> q.err, mutated |-> q.db # d]
    IN  IF ReturnsAfterLookup(q)
        THEN [db |-> q.db, calls |-> <<lookup>>, hung |-> FALSE]
        ELSE IF Classify(q) = "unchanged"
        THEN [db |-> q.db, calls |-> <<lookup>>, hung |-> FALSE]
        ELSE
          LET isUpdate == Classify(q) = "updated"
              tootContent == IF isUpdate THEN UpdatePrefix \o post.Link
                             ELSE GetTootContent(post, c.SkipPrefixCategories)
              tp == TootPost(c.MastodonURL, c.MastodonAccessToken, tootContent, io.toot)
              toot == [op |-> "TootPost", text |-> tootContent, isUpdate |-> isUpdate,
                       http |-> io.toot, err |-> tp.err, sent |-> tp.sent]
          IN  IF tp.hung \/ ReturnsAfterToot(tp)
              THEN [db |-> q.db, calls |-> <<lookup, toot>>, hung |-> tp.hung]
              ELSE
                LET st == StoreTootedPost(q.db, post.Link, post.Content, t, io.xerr)
                    store == [op |-> "StoreTootedPost", link |-> post.Link,
                              content |-> post.Content, err |-> st.err]
                    sec == Secondaries(c, tootContent, io)
                IN  [db |-> st.db,
                     calls |-> <<lookup, toot, store>> \o sec,
                     hung |-> \E i \in DOMAIN sec : sec[i].hung]

----------------------------------------------------------------------------
(* What the outside can answer during one handlePost *)

HTTPFailures == {NetErr, Non200}

\* a two-step publish: refused at the first exchange, refused at the second,
\* or accepted
TwoStepOutcomes == {<<Non200, OK200>>, <<OK200, Non200>>, <<OK200, OK200>>}

\* a two-step publish whose first or second exchange is never answered
NeverAnswered == {<<Hang, OK200>>, <<OK200, Hang>>}

AllGood == [qerr |-> FALSE, toot |-> OK200, xerr |-> FALSE,
            bsky |-> <<OK200, OK200>>, thr |-> <<OK200, OK200>>]

\* the answers that make a difference under configuration c: a publisher
\* that is not called has no outcome, and when both secondaries are called
\* each is refused at its first exchange or accepted
IOs(c) ==
    LET bluesky == c.BlueskyHandle # "" /\ c.BlueskyPassword # ""
        threads == c.ThreadsUserID # "" /\ c.ThreadsToken # ""
        outcomes == IF bluesky /\ threads
                    THEN {<<Non200, OK200>>, <<OK200, OK200>>}
                    ELSE TwoStepOutcomes
    IN  {[AllGood EXCEPT !.qerr = TRUE]}
        \cup {[AllGood EXCEPT !.toot = h] : h \in HTTPFailures}
        \cup {[AllGood EXCEPT !.xerr = x, !.bsky = b, !.thr = t] :
                 x \in BOOLEAN,
                 b \in IF bluesky THEN outcomes ELSE {<<OK200, OK200>>},
                 t \in IF threads THEN outcomes ELSE {<<OK200, OK200>>}}
        \cup {[AllGood EXCEPT !.toot = Hang]}
        \cup (IF bluesky THEN {[AllGood EXCEPT !.bsky = h] : h \in NeverAnswered} ELSE {})
        \cup (IF threads THEN {[AllGood EXCEPT !.thr = h] : h \in NeverAnswered} ELSE {})

----------------------------------------------------------------------------
(* Observers *)

NoCall == [kind |-> "none"]

\* Mastodon accepted the status: the request went out and was answered 200
Accepted(call) == call.op = "TootPost" /\ call.sent # <<>> /\ call.http = OK200

Committed(call) == call.op = "StoreTootedPost" /\ ~call.err

AcceptedIn(calls) == \E i \in DOMAIN calls : Accepted(calls[i])
CommittedIn(calls) == \E i \in DOMAIN calls : Committed(calls[i])
RefusedIn(calls) ==
    \E i \in DOMAIN calls : calls[i].op = "TootPost" /\ ~Accepted(calls[i])

NoFail == [failed |-> FALSE]

SecondaryOps == {"bluesky.Post", "threads.Post"}

\* the secondaries whose call returned an error
FailedSecondaries(calls) ==
    {calls[i].op : i \in {j \in DOMAIN calls :
                             calls[j].op \in SecondaryOps /\ calls[j].err}}

NoSecondaryFailure == [content |-> NoContent, ops |-> {}]

----------------------------------------------------------------------------
(* The process *)

Init ==
    /\ pc = "init"
    /\ conf = ZeroConfig
    /\ now = 0
    /\ posts = <<>>
    /\ idx = 1
    /\ cycle = 0
    /\ failedFetches = 0
    /\ last = NoCall
    /\ \E file \in {FirstRun, EarlierRun} :
          /\ db = file.db
          /\ published = file.content
          /\ recorded = file.content
    /\ prevFail = [l \in Links |-> NoFail]
    /\ secFailed = [l \in Links |-> NoSecondaryFailure]
    /\ debug = FALSE
    /\ logLevel = "info"

\* cmd.init: config.GetEnvVars(); the process exits when a required
\* variable is missing
Startup(envs) ==
    /\ pc = "init"
    /\ \E e \in envs :
          /\ conf' = ParseEnv(e)
          /\ IF MissingRequired(ParseEnv(e))
             THEN pc' = "exited" /\ debug' = debug
             ELSE pc' = "prerun" /\ debug' = e.FlagDebug
    /\ UNCHANGED <<db, now, posts, idx, cycle, failedFetches, last,
                   published, recorded, prevFail, secFailed, logLevel>>

GetEnvVars == Startup(Envs)

\* cobra's PersistentPreRun of the root command
rootCmdPreRun ==
    /\ pc = "prerun"
    /\ logLevel' = IF debug THEN "debug" ELSE logLevel
    /\ pc' = "run"
    /\ UNCHANGED <<conf, db, now, posts, idx, cycle, failedFetches, last,
                   published, recorded, prevFail, secFailed, debug>>

\* Run up to the loop: the feed URL check, the interval correction, InitDB
RunSetup ==
    /\ pc = "run"
    /\ IF conf.FeedURL = ""
       THEN /\ pc' = "exited"
            /\ UNCHANGED <<conf, db>>
       ELSE /\ conf' = CorrectInterval(conf)
            /\ db' = InitDB(db)
            /\ pc' = "fetch"
    /\ last' = [kind |-> "setup", given |-> conf]
    /\ UNCHANGED <<now, posts, idx, cycle, failedFetches,
                   published, recorded, prevFail, secFailed,
                   debug, logLevel>>

\* rss.CheckRSSFeed returns a batch
CheckRSSFeedOK ==
    /\ pc = "fetch"
    /\ \E f \in Feeds : posts' = f
    /\ idx' = 1
    /\ pc' = "items"
    /\ last' = NoCall
    /\ failedFetches' = 0
    /\ UNCHANGED <<conf, db, now, cycle, published, recorded, prevFail, secFailed,
                   debug, logLevel>>

FetchOK == cycle < MaxCycles /\ CheckRSSFeedOK

\* rss.CheckRSSFeed returns an error: log and continue
FetchFail ==
    /\ pc = "fetch"
    /\ cycle < MaxCycles
    /\ failedFetches < MaxFailedFetches
    /\ failedFetches' = failedFetches + 1
    /\ pc' = "fetch"
    /\ UNCHANGED <<conf, db, now, posts, idx, cycle, last, published, recorded, prevFail, secFailed,
                   debug, logLevel>>

\* the loop body for a post the category filter drops
SkipPost ==
    /\ pc = "items"
    /\ idx <= Len(posts)
    /\ Filtered(posts[idx], conf)
    /\ idx' = idx + 1
    /\ last' = [kind |-> "filtered", post |-> posts[idx]]
    /\ UNCHANGED <<pc, conf, db, now, posts, cycle, failedFetches,
                   published, recorded, prevFail, secFailed,
                   debug, logLevel>>

\* the loop body for a post that passes the filter: handlePost(post, &conf)
HandlePost ==
    /\ pc = "items"
    /\ idx <= Len(posts)
    /\ ~Filtered(posts[idx], conf)
    /\ \E io \in IOs(conf) :
          LET post == posts[idx]
              r == handlePost(post, conf, db, now, io)
          IN  /\ db' = r.db
              /\ pc' = IF r.hung THEN "blocked" ELSE pc
              /\ idx' = IF r.hung THEN idx ELSE idx + 1
              /\ last' = [kind |-> IF r.hung THEN "hung" ELSE "handled",
                           post |-> post, calls |-> r.calls,
                           retryOf |-> IF /\ prevFail[post.Link].failed
                                          /\ prevFail[post.Link].cycle + 1 = cycle
                                          /\ prevFail[post.Link].post = post
                                       THEN prevFail[post.Link] ELSE NoFail]
              /\ published' = IF AcceptedIn(r.calls)
                              THEN [published EXCEPT ![post.Link] = post.Content]
                              ELSE published
              /\ recorded' = IF AcceptedIn(r.calls) /\ CommittedIn(r.calls)
                             THEN [recorded EXCEPT ![post.Link] = post.Content]
                             ELSE recorded
              /\ prevFail' =
                    IF RefusedIn(r.calls)
                    THEN [prevFail EXCEPT ![post.Link] =
                            [failed |-> TRUE, cycle |-> cycle, post |-> post,
                             class |-> Classify(r.calls[1]), text |-> r.calls[2].text]]
                    ELSE [prevFail EXCEPT ![post.Link] = NoFail]
              /\ secFailed' =
                    LET old == secFailed[post.Link]
                        ops == FailedSecondaries(r.calls) \cup
                               (IF old.content = post.Content THEN old.ops ELSE {})
                    IN  [secFailed EXCEPT ![post.Link] =
                            IF ops = {} THEN NoSecondaryFailure
                            ELSE [content |-> post.Content, ops |-> ops]]
    /\ UNCHANGED <<conf, now, posts, cycle, failedFetches, debug, logLevel>>

\* variant: the pass ends with items of the batch left
EndOfBatch_Early ==
    /\ pc = "items"
    /\ idx > 1
    /\ pc' = "sleep"
    /\ UNCHANGED <<conf, db, now, posts, idx, cycle, failedFetches, last,
                   published, recorded, prevFail, secFailed, debug, logLevel>>

\* the range loop is over
EndOfBatch ==
    /\ pc = "items"
    /\ idx > Len(posts)
    /\ pc' = "sleep"
    /\ UNCHANGED <<conf, db, now, posts, idx, cycle, failedFetches, last,
                   published, recorded, prevFail, secFailed,
                   debug, logLevel>>

\* time.Sleep(conf.Interval minutes), then the next iteration
SleepUntil(t, n) ==
    /\ pc = "sleep"
    /\ now' = t
    /\ cycle' = n
    /\ posts' = <<>>
    /\ idx' = 1
    /\ last' = NoCall
    /\ prevFail' = [l \in Links |->
                      IF prevFail[l].failed /\ prevFail[l].cycle = cycle
                      THEN prevFail[l] ELSE NoFail]
    /\ pc' = "fetch"
    /\ UNCHANGED <<conf, db, failedFetches, published, recorded, secFailed,
                   debug, logLevel>>

Sleep == SleepUntil(now + conf.Interval, cycle + 1)

Next ==
    \/ GetEnvVars
    \/ rootCmdPreRun
    \/ RunSetup
    \/ FetchOK
    \/ FetchFail
    \/ SkipPost
    \/ HandlePost
    \/ EndOfBatch
    \/ Sleep

Spec == Init /\ [][Next]_vars

----------------------------------------------------------------------------
(* The publishers on their own: each call of a publisher with credentials
   that are set or empty, and every outcome of its HTTP exchanges. *)

HTTPOutcomes == {NetErr, Non200, BadBody, OK200, Hang}
Credentials == {"", "secret"}
DefaultPDS == "https://bsky.social"

PubInit == Init /\ db = {}

CallTootPost ==
    /\ pc = "init"
    /\ \E url \in {"", "https://mastodon.example"}, token \in Credentials,
          content \in {NewPrefix \o TechLink, UpdatePrefix \o TechLink},
          http \in HTTPOutcomes :
          last' = [kind |-> "call", op |-> "TootPost", id |-> url, secret |-> token,
                   text |-> content, http |-> <<http>>,
                   result |-> TootPost(url, token, content, http)]
    /\ UNCHANGED <<pc, conf, db, now, posts, idx, cycle, failedFetches,
                   published, recorded, prevFail, secFailed,
                   debug, logLevel>>

CallBlueskyPost ==
    /\ pc = "init"
    /\ \E handle \in Credentials, password \in Credentials,
          http1 \in HTTPOutcomes, http2 \in HTTPOutcomes :
          LET content == NewPrefix \o TechLink
          IN  last' = [kind |-> "call", op |-> "bluesky.Post", id |-> handle,
                       secret |-> password, text |-> content, http |-> <<http1, http2>>,
                       result |-> BlueskyPost(handle, password, DefaultPDS, content,
                                              http1, http2)]
    /\ UNCHANGED <<pc, conf, db, now, posts, idx, cycle, failedFetches,
                   published, recorded, prevFail, secFailed,
                   debug, logLevel>>

CallThreadsPost ==
    /\ pc = "init"
    /\ \E userID \in Credentials, token \in Credentials,
          http1 \in HTTPOutcomes, http2 \in HTTPOutcomes :
          LET content == NewPrefix \o TechLink
          IN  last' = [kind |-> "call", op |-> "threads.Post", id |-> userID,
                       secret |-> token, text |-> content, http |-> <<http1, http2>>,
                       result |-> ThreadsPost(userID, token, content, http1, http2)]
    /\ UNCHANGED <<pc, conf, db, now, posts, idx, cycle, failedFetches,
                   published, recorded, prevFail, secFailed,
                   debug, logLevel>>

PubNext ==
    \/ CallTootPost
    \/ CallBlueskyPost
    \/ CallThreadsPost

PubSpec == PubInit /\ [][PubNext]_vars

----------------------------------------------------------------------------
(* The process without an end: the loop of Run goes on for ever.  The clock
   and the count of passes are left where they are, every fetch succeeds,
   and the process takes its next step whenever it has one. *)

\* the feed and Mastodon with Bluesky, or with a category
LiveEnvs ==
    {[BaseEnv EXCEPT !.BLUESKY_HANDLE = Set("me.bsky.social"),
                     !.BLUESKY_PASSWORD = Set("app-password")],
     [BaseEnv EXCEPT !.CATEGORY = Set(TechCategory)]}

LiveInit == Init /\ db = {}

LiveGetEnvVars == Startup(LiveEnvs)

LiveSleep == SleepUntil(now, cycle)

LiveNext ==
    \/ LiveGetEnvVars
    \/ rootCmdPreRun
    \/ RunSetup
    \/ CheckRSSFeedOK
    \/ SkipPost
    \/ HandlePost
    \/ EndOfBatch
    \/ LiveSleep

LiveSpec == LiveInit /\ [][LiveNext]_vars /\ WF_vars(LiveNext)

----------------------------------------------------------------------------
(* Properties *)

Fingerprint(content) == Hex(HashContent(content))

\* the step is one call of handlePost
HandlePostStep == pc = "items" /\ idx' = idx + 1 /\ last'.kind = "handled"

Handled == last.kind = "handled"
LookupOf(l) == l.calls[1]
Result(q) == <<q.exists, q.updated, q.err>>

BlueskyEnabled == conf.BlueskyHandle # "" /\ conf.BlueskyPassword # ""
ThreadsEnabled == conf.ThreadsUserID # "" /\ conf.ThreadsToken # ""

\* C1: when Mastodon refuses the toot of a new or updated item, handlePost
\* does not call StoreTootedPost and leaves the store as it found it, and
\* the link of a new item is still reported (exists=false, updated=false).
C1_PrimaryFailureNonCommit ==
    [][(HandlePostStep /\ RefusedIn(last'.calls)) =>
          /\ \A i \in DOMAIN last'.calls : last'.calls[i].op # "StoreTootedPost"
          /\ db' = db
          /\ (Classify(LookupOf(last')) = "new" =>
                Result(HasPostChanged(db', last'.post.Link, last'.post.Content, FALSE))
                  = <<FALSE, FALSE, FALSE>>)]_vars

C1_Witness ==
    /\ Handled
    /\ RefusedIn(last.calls)
    /\ Classify(LookupOf(last)) = "new"
    /\ \A r \in db : r.link # last.post.Link

\* C2 (as stated): every stored hash is the fingerprint of the content that
\* Mastodon accepted most recently for that link.
C2_HashIsLastPublished ==
    \A r \in db :
        /\ published[r.link] # NoContent
        /\ r.content_hash = Fingerprint(published[r.link])

\* C2 (amended): every stored hash is the fingerprint of the content of the
\* most recent accepted toot for that link whose store write succeeded.
C2_HashIsLastRecorded ==
    \A r \in db :
        /\ recorded[r.link] # NoContent
        /\ r.content_hash = Fingerprint(recorded[r.link])

C2_Witness ==
    \E r \in db :
        /\ recorded[r.link] # NoContent
        /\ published[r.link] # recorded[r.link]
        /\ r.content_hash = Fingerprint(recorded[r.link])

\* C3: when Mastodon refuses the toot of an item, neither bluesky.Post nor
\* threads.Post is called for that item, whatever credentials are configured.
C3_NoSecondaryAfterPrimaryFailure ==
    (Handled /\ RefusedIn(last.calls)) =>
        \A i \in DOMAIN last.calls : last.calls[i].op \notin SecondaryOps

C3_Witness ==
    /\ Handled
    /\ RefusedIn(last.calls)
    /\ BlueskyEnabled
    /\ ThreadsEnabled

\* C4: when Mastodon refuses the toot of a new or updated item, handlePost
\* notifies Gotify of the failure before it returns.
C4_AlertOnPrimaryFailure ==
    (Handled /\ RefusedIn(last.calls)) =>
        \E i \in DOMAIN last.calls : last.calls[i].op = "gotify.logFailure"

C6_FetchFailureSleeps ==
    [][failedFetches' = failedFetches + 1 => pc' = "sleep"]_vars

C8_NoDuplicates ==
    [][(HandlePostStep /\ AcceptedIn(last'.calls)) =>
          published[last'.post.Link] # last'.post.Content]_vars

\* C8 (amended): handlePost never has Mastodon accept the content that it
\* accepted most recently for the same link, provided the store write that
\* followed that toot succeeded.
C8_NoDuplicatesOnceRecorded ==
    [][(HandlePostStep /\ AcceptedIn(last'.calls)) =>
          ~(/\ published[last'.post.Link] = last'.post.Content
            /\ recorded[last'.post.Link] = last'.post.Content)]_vars

C8_Witness ==
    /\ Handled
    /\ cycle >= 1
    /\ Classify(LookupOf(last)) = "unchanged"
    /\ Len(last.calls) = 1
    /\ published[last.post.Link] = last.post.Content
    /\ recorded[last.post.Link] = last.post.Content

\* C9: a link whose latest successful StoreTootedPost had content c1 is
\* reported (true, false) with c1 and (true, true) with any content of
\* another fingerprint; a link never stored is reported (false, false).
C9_DedupCorrectness ==
    \A l \in Links :
        IF recorded[l] # NoContent
        THEN /\ Result(HasPostChanged(db, l, recorded[l], FALSE)) = <<TRUE, FALSE, FALSE>>
             /\ \A c2 \in Contents :
                   Fingerprint(c2) # Fingerprint(recorded[l]) =>
                      Result(HasPostChanged(db, l, c2, FALSE)) = <<TRUE, TRUE, FALSE>>
        ELSE \A c \in Contents :
                Result(HasPostChanged(db, l, c, FALSE)) = <<FALSE, FALSE, FALSE>>

C9_Witness ==
    /\ Handled
    /\ CommittedIn(last.calls)
    /\ recorded[TechLink] = Updated
    /\ recorded[OtherLink] = NoContent

\* C10: HasPostChanged leaves the store as it is, and a second call with the
\* same arguments returns what the first returned.
C10_LookupIsPure ==
    /\ Handled => ~LookupOf(last).mutated
    /\ \A l \in Links, c \in Contents, qerr \in BOOLEAN :
          LET first == HasPostChanged(db, l, c, qerr)
              second == HasPostChanged(first.db, l, c, qerr)
          IN  /\ first.db = db
              /\ Result(second) = Result(first)
              /\ second.db = db

C10_Witness ==
    /\ Handled
    /\ db # {}
    /\ Len(last.calls) = 1
    /\ Classify(LookupOf(last)) = "unchanged"
    /\ \E l \in Links : \A r \in db : r.link # l

\* C11 as stated: once Mastodon has accepted the toot of an item, a lookup
\* of its link and content answers (exists, not updated).
C11_AcceptedIsCommitted ==
    Handled /\ AcceptedIn(last.calls) =>
        Result(HasPostChanged(db, last.post.Link, last.post.Content, FALSE))
            = <<TRUE, FALSE, FALSE>>

\* C11: once Mastodon has accepted the toot of a new or updated item and
\* StoreTootedPost has succeeded, a lookup of its link and content answers
\* (exists, not updated), at the first publish and at each later one.
C11_EndToEndCommit ==
    Handled /\ AcceptedIn(last.calls) /\ CommittedIn(last.calls) =>
        Result(HasPostChanged(db, last.post.Link, last.post.Content, FALSE))
            = <<TRUE, FALSE, FALSE>>

C11_Witness ==
    /\ Handled
    /\ AcceptedIn(last.calls)
    /\ CommittedIn(last.calls)
    /\ last.calls[2].isUpdate
    /\ last.post.Content = Updated
    /\ cycle > 0

\* C12: an item the store knows with the content it has makes handlePost
\* stop after the lookup: no publisher is called, nothing is written, and
\* the store keeps every record, timestamp included.
C12_UnchangedIsNoOp ==
    [][HandlePostStep /\ LookupOf(last').exists /\ ~LookupOf(last').updated
                      /\ ~LookupOf(last').err =>
          /\ Len(last'.calls) = 1
          /\ db' = db
          /\ published' = published
          /\ recorded' = recorded]_vars

C12_Witness ==
    /\ Handled
    /\ Result(LookupOf(last)) = <<TRUE, FALSE, FALSE>>
    /\ Len(last.calls) = 1
    /\ \E r \in db : r.link = last.post.Link /\ r.timestamp >= 0 /\ r.timestamp < now

\* the part of the link after its last slash
LastSegment(link) ==
    LET n == CHOOSE i \in 0..Len(link) :
                /\ i > 0 => link[i] = "/"
                /\ \A j \in (i + 1)..Len(link) : link[j] # "/"
    IN  SubSeq(link, n + 1, Len(link))

IsSubstring(sub, str) ==
    \E a, b \in 0..Len(str) :
        /\ a + Len(sub) + b = Len(str)
        /\ \A k \in 1..Len(sub) : str[a + k] = sub[k]

\* the step is one turn of the range loop over the batch
LoopStep == pc = "items" /\ idx' = idx + 1

\* C13: with a category configured, an item is handed to handlePost exactly
\* when the last segment of its link contains the category; the other items
\* pass without a lookup, a publish or a write.  With no category configured
\* every item is handed to handlePost.
C13_CategoryFilter ==
    [][LoopStep =>
          LET post == posts[idx]
              matches == IsSubstring(conf.Category, LastSegment(post.Link))
          IN  /\ last'.post = post
              /\ last'.kind = IF conf.Category = <<>> \/ matches
                              THEN "handled" ELSE "filtered"
              /\ last'.kind = "filtered" =>
                    /\ DOMAIN last' = {"kind", "post"}
                    /\ db' = db
                    /\ published' = published
                    /\ recorded' = recorded]_vars

C13_Witness ==
    /\ conf.Category = TechCategory
    /\ last.kind = "filtered"
    /\ last.post.Link = OtherLink
    /\ idx = 3
    /\ published[TechLink] # NoContent

StartsWith(s, p) == Len(p) <= Len(s) /\ \A k \in 1..Len(p) : s[k] = p[k]

\* C14: the text handed to TootPost is the update template with the link for
\* an updated item, whatever its title; else content, " - " and link for an
\* item whose title starts, letter case included, with one of the skip-prefix
\* categories; else "New blog post: " and the link.
C14_FormatterRules ==
    Handled /\ Len(last.calls) >= 2 =>
        LET q == LookupOf(last)
            post == last.post
            skip == conf.SkipPrefixCategories
        IN  last.calls[2].text =
                IF q.exists /\ q.updated THEN UpdatePrefix \o post.Link
                ELSE IF \E i \in DOMAIN skip : StartsWith(post.Title, skip[i])
                     THEN post.Content \o Dash \o post.Link
                     ELSE NewPrefix \o post.Link

C14_Witness ==
    /\ Handled
    /\ Len(last.calls) >= 2
    /\ conf.SkipPrefixCategories = <<Thoughts>>
    /\ last.post.Title = ThoughtsTitle
    /\ ~last.calls[2].isUpdate
    /\ last.calls[2].text = Body \o Dash \o TechLink

\* C15: when the lookup of an item fails, handlePost ends after it: no
\* publisher is called, nothing is written, the lookup is not made again in
\* this pass over the batch, and the pass goes on with the next item.
C15_LookupFailureSkipsItem ==
    [][/\ HandlePostStep /\ LookupOf(last').err =>
             /\ Len(last'.calls) = 1
             /\ db' = db
             /\ published' = published
             /\ recorded' = recorded
             /\ posts' = posts
             /\ pc' = "items"
       /\ Handled /\ LookupOf(last).err /\ idx <= Len(posts) =>
             /\ last'.kind \in {"handled", "filtered", "hung"}
             /\ last'.post = posts[idx]
             /\ last'.post.Link # last.post.Link]_vars

C15_Witness ==
    /\ Handled
    /\ LookupOf(last).err
    /\ Len(last.calls) = 1
    /\ Len(posts) = 2
    /\ idx = 2

\* C16: when StoreTootedPost fails after Mastodon accepted the toot, no
\* secondary publisher is called for the item.
C16_AbortOnStoreFailure ==
    Handled /\ (\E i \in DOMAIN last.calls :
                   last.calls[i].op = "StoreTootedPost" /\ last.calls[i].err) =>
        \A j \in DOMAIN last.calls : last.calls[j].op \notin SecondaryOps

InLoop(p) == p \in {"fetch", "items", "sleep"}

\* C17: Run replaces an interval that is not positive by 60 before its loop
\* starts, so that the loop always has a positive interval and every sleep
\* moves the clock forward.
C17_PositiveInterval ==
    [][/\ pc = "run" /\ pc' = "fetch" /\ conf.Interval <= 0 => conf'.Interval = 60
       /\ pc = "run" /\ pc' = "fetch" /\ conf.Interval > 0 => conf'.Interval = conf.Interval
       /\ InLoop(pc') => conf'.Interval > 0
       /\ pc = "sleep" /\ pc' = "fetch" => now' > now]_vars

C17_Witness ==
    /\ pc = "fetch"
    /\ last.kind = "setup"
    /\ last.given.Interval = 0
    /\ conf.Interval = 60

\* C18: with no feed URL, or without the URL or the access token of
\* Mastodon, the process exits at startup: it never enters the loop, and at
\* its exit nothing has been fetched, looked up, written or published.
C18_FatalConfigError ==
    [][/\ pc = "init" /\ (conf'.MastodonURL = "" \/ conf'.MastodonAccessToken = "") =>
             pc' = "exited"
       /\ pc = "run" /\ conf.FeedURL = "" => pc' = "exited"
       /\ InLoop(pc') =>
             conf'.FeedURL # "" /\ conf'.MastodonURL # "" /\ conf'.MastodonAccessToken # ""
       /\ pc' = "exited" =>
             /\ pc \in {"init", "run"}
             /\ db' = db
             /\ published' = published
             /\ recorded' = recorded
             /\ posts' = <<>>
             /\ failedFetches' = 0
             /\ cycle' = 0
             /\ last'.kind \in {"none", "setup"}]_vars

C18_Witness ==
    /\ pc = "exited"
    /\ conf.FeedURL = ""
    /\ conf.MastodonURL # ""
    /\ conf.MastodonAccessToken # ""
    /\ ~MissingRequired(conf)
    /\ last.kind = "setup"
    /\ posts = <<>>

\* how many times handlePost called the publisher o
Attempts(calls, o) == Cardinality({i \in DOMAIN calls : calls[i].op = o})

\* C19: after Mastodon accepted the toot, bluesky.Post is called exactly
\* when handle and password are both set, threads.Post exactly when user ID
\* and token are both set; with neither pair complete handlePost calls the
\* lookup, TootPost and StoreTootedPost only.
C19_SecondaryOnlyWithCredentials ==
    Handled /\ AcceptedIn(last.calls) =>
        /\ Attempts(last.calls, "bluesky.Post") > 0 <=> BlueskyEnabled
        /\ Attempts(last.calls, "threads.Post") > 0 <=> ThreadsEnabled
        /\ ~BlueskyEnabled /\ ~ThreadsEnabled =>
              [i \in DOMAIN last.calls |-> last.calls[i].op]
                  = <<"HasPostChanged", "TootPost", "StoreTootedPost">>

C19_Witness ==
    /\ Handled
    /\ AcceptedIn(last.calls)
    /\ conf.BlueskyHandle # ""
    /\ conf.BlueskyPassword = ""
    /\ Len(last.calls) = 3

\* C20: each time Mastodon accepts the toot of an item, every secondary with
\* credentials is called exactly once, and a secondary that failed for an
\* item is not called again for it in a later pass while the feed carries
\* the same content.
C20_SecondaryNeverRetried ==
    [][HandlePostStep =>
          LET post == posts[idx]
              before == secFailed[post.Link]
          IN  /\ AcceptedIn(last'.calls) =>
                    /\ Attempts(last'.calls, "bluesky.Post") = IF BlueskyEnabled THEN 1 ELSE 0
                    /\ Attempts(last'.calls, "threads.Post") = IF ThreadsEnabled THEN 1 ELSE 0
              /\ before.content = post.Content =>
                    \A o \in before.ops : Attempts(last'.calls, o) = 0]_vars

\* C21: within one handlePost, StoreTootedPost is called only right after a
\* TootPost that returned no error, every secondary is called after
\* StoreTootedPost, and bluesky.Post comes before threads.Post; TootPost is
\* the second call and is made once.
C21_OrderWithinItem ==
    Handled =>
        LET calls == last.calls
        IN  /\ \A i \in DOMAIN calls :
                  /\ calls[i].op = "HasPostChanged" <=> i = 1
                  /\ calls[i].op = "TootPost" <=> i = 2
                  /\ calls[i].op = "StoreTootedPost" =>
                        i = 3 /\ ~calls[2].err /\ Accepted(calls[2])
                  /\ calls[i].op \in SecondaryOps =>
                        i > 3 /\ calls[3].op = "StoreTootedPost"
            /\ \A i, j \in DOMAIN calls :
                  calls[i].op = "bluesky.Post" /\ calls[j].op = "threads.Post" => i < j
            /\ Attempts(calls, "bluesky.Post") <= 1
            /\ Attempts(calls, "threads.Post") <= 1

C21_Witness ==
    /\ Handled
    /\ Len(last.calls) = 5
    /\ last.calls[3].op = "StoreTootedPost"
    /\ last.calls[4].op = "bluesky.Post"
    /\ last.calls[4].err
    /\ last.calls[5].op = "threads.Post"

\* C22: every network call of a pass returns within its timeout, so a pass
\* over the batch always ends and the process reaches its sleep, even when a
\* destination never answers.
C22_CycleReachesSleep == (pc = "items") ~> (pc = "sleep")

Called == last.kind = "call"

\* the exchange was answered with status 200
Status200(h) == h \in {OK200, BadBody}

\* C23: bluesky.Post and threads.Post return without error only when both
\* of their exchanges succeeded; the second request goes out only after the
\* first was answered 200 with a body that decodes; and a failure of either
\* exchange makes the call return an error.
C23_TwoStepAtomic ==
    Called /\ last.op \in SecondaryOps /\ last.id # "" /\ last.secret # "" =>
        LET r == last.result
            h == last.http
        IN  /\ ~r.err /\ ~r.hung => h[1] = OK200 /\ Status200(h[2]) /\ Len(r.sent) = 2
            /\ Len(r.sent) = 2 <=> h[1] = OK200
            /\ Len(r.sent) >= 1
            /\ h[1] \in {NetErr, Non200, BadBody} => r.err /\ ~r.hung
            /\ h[1] = OK200 /\ h[2] \in {NetErr, Non200} => r.err /\ ~r.hung

C23_Witness ==
    /\ Called
    /\ last.op = "threads.Post"
    /\ last.http = <<OK200, Non200>>
    /\ last.result.err
    /\ Len(last.result.sent) = 2

\* C24: a publisher called with an empty URL or token (TootPost), handle or
\* password (bluesky.Post), user ID or token (threads.Post) returns an error
\* and sends no request.
C24_CredentialsBeforeIO ==
    Called /\ (last.id = "" \/ last.secret = "") =>
        /\ last.result.err
        /\ ~last.result.hung
        /\ last.result.sent = <<>>

C24_Witness ==
    /\ Called
    /\ last.op = "bluesky.Post"
    /\ last.id # ""
    /\ last.secret = ""
    /\ last.http = <<OK200, OK200>>
    /\ last.result.err
    /\ last.result.sent = <<>>

\* C25: once the command has started, debug logging is on exactly when the
\* --debug flag was given or DEBUG is true in the environment.
C25_DebugFlagOrEnv ==
    pc \notin {"init", "prerun"} /\ ~MissingRequired(conf) =>
        (logLevel = "debug" <=> debug \/ conf.Debug)

RecordedLinks(d) == {r.link : r \in d}

\* C26: the store never holds two records of one link; a successful
\* StoreTootedPost leaves exactly one record of its link, with the hash of
\* the content and the time of the call, and the other records as they
\* were; no step removes a link from the store.
C26_OneRecordPerLink ==
    [][/\ \A r1, r2 \in db' : r1.link = r2.link => r1 = r2
       /\ RecordedLinks(db) \subseteq RecordedLinks(db')
       /\ pc = "items" /\ last'.kind \in {"handled", "hung"}
                      /\ CommittedIn(last'.calls) =>
             LET l == last'.post.Link
                 new == [link |-> l,
                         content_hash |-> Fingerprint(last'.post.Content),
                         timestamp |-> now]
             IN  db' = {r \in db : r.link # l} \cup {new}]_vars

C26_Witness ==
    /\ Handled
    /\ CommittedIn(last.calls)
    /\ last.calls[2].isUpdate
    /\ Cardinality(db) = 2
    /\ \E r \in db : r.link = last.post.Link /\ r.timestamp = now /\ now > 0
    /\ \E r \in db : r.link # last.post.Link /\ r.timestamp < now

\* the step is one execution of the loop body, returned or not
BodyStep == pc = "items" /\ last' # last

\* C27: the items of a batch are taken one at a time in the order of the
\* feed; all calls of one execution of the loop body concern its item; the
\* store changes only in the loop body; the pass ends, and the next fetch is
\* made, only after the last item of the batch.
C27_SingleSequence ==
    [][/\ BodyStep =>
             /\ idx <= Len(posts)
             /\ last'.post = posts[idx]
             /\ posts' = posts
             /\ cycle' = cycle
             /\ idx' = idx + 1 \/ (pc' = "blocked" /\ idx' = idx)
             /\ last'.kind # "filtered" =>
                   \A i \in DOMAIN last'.calls :
                      "link" \in DOMAIN last'.calls[i] =>
                         last'.calls[i].link = posts[idx].Link
       /\ db' # db \/ published' # published => BodyStep
       /\ pc = "items" /\ pc' # "items" =>
             \/ pc' = "sleep" /\ idx > Len(posts)
             \/ pc' = "blocked"
       /\ posts' # posts \/ cycle' # cycle => pc \in {"fetch", "sleep"}]_vars

C27_Witness ==
    /\ Handled
    /\ Len(posts) = 2
    /\ idx = 3
    /\ last.post = posts[2]
    /\ CommittedIn(last.calls)
    /\ cycle > 0
    /\ \E r \in db : r.link = posts[1].Link /\ r.timestamp = now

\* the text a secondary's requests carry: createRecord's for Bluesky, the
\* container's for Threads
TextSent(call) ==
    {call.sent[i].body : i \in {k \in DOMAIN call.sent :
        call.sent[k].path \in {"/xrpc/com.atproto.repo.createRecord", "/threads"}}}

\* C28: every secondary called for an item is given, and sends, exactly the
\* text that Mastodon accepted for the item in the same handlePost, the
\* update template for an updated item.
C28_SecondariesGetPrimaryText ==
    last.kind \in {"handled", "hung"} =>
        \A i \in DOMAIN last.calls :
            last.calls[i].op \in SecondaryOps =>
                /\ Accepted(last.calls[2])
                /\ last.calls[i].text = last.calls[2].text
                /\ last.calls[2].sent[1].body = StatusEq \o last.calls[2].text
                /\ TextSent(last.calls[i]) \subseteq {last.calls[2].text}
                /\ last.calls[2].isUpdate =>
                      last.calls[i].text = UpdatePrefix \o last.post.Link

C28_Witness ==
    /\ Handled
    /\ Len(last.calls) = 5
    /\ last.calls[2].isUpdate
    /\ last.calls[4].text = UpdatePrefix \o TechLink
    /\ TextSent(last.calls[4]) = {UpdatePrefix \o TechLink}
    /\ TextSent(last.calls[5]) = {UpdatePrefix \o TechLink}

\* the item that comes second in the batches of the feed
LaterItem == [Title |-> TitleOf(OtherLink), Link |-> OtherLink, Content |-> Body]

HandlingLaterItem == last.kind \in {"handled", "hung"} /\ last.post = LaterItem

\* the item is in every batch, with this content
StaysInFeed == [](pc = "items" => \E i \in DOMAIN posts : posts[i] = LaterItem)

PassesFilter == [](InLoop(pc) => ~Filtered(LaterItem, conf))

\* no lookup and no write of the store fails
StoreSucceeds ==
    [](last.kind \in {"handled", "hung"} =>
          \A i \in DOMAIN last.calls :
             last.calls[i].op \in {"HasPostChanged", "StoreTootedPost"} =>
                ~last.calls[i].err)

\* Mastodon refuses the toot of the item finitely many times
PrimaryRecovers == <>[]~(HandlingLaterItem /\ RefusedIn(last.calls))

LaterItemCommitted ==
    \E r \in db : /\ r.link = LaterItem.Link
                  /\ r.content_hash = Fingerprint(LaterItem.Content)

\* C29: an item that stays in the feed with the same content and passes the
\* category filter, with fetches and store operations that succeed and a
\* Mastodon that does not refuse for ever, is recorded with the fingerprint
\* of its content from some pass on, and from then on every pass finds it
\* unchanged and publishes nothing for it.
C29_EventualCommit ==
    StaysInFeed /\ PassesFilter /\ StoreSucceeds /\ PrimaryRecovers =>
        <>[](/\ LaterItemCommitted
             /\ HandlingLaterItem /\ pc # "blocked" =>
                   /\ Classify(LookupOf(last)) = "unchanged"
                   /\ Len(last.calls) = 1)

\* C30: when GOTIFY_URL or GOTIFY_TOKEN is empty the process exits in
\* GetEnvVars, whatever the feed URL and the Mastodon credentials are, so
\* the loop of Run only ever runs with both Gotify settings present.
C30_GotifyRequired ==
    [][/\ pc = "init" /\ (conf'.GotifyURL = "" \/ conf'.GotifyToken = "") =>
             pc' = "exited" /\ last' = last
       /\ pc' \in {"prerun", "run"} \/ InLoop(pc') =>
             conf'.GotifyURL # "" /\ conf'.GotifyToken # ""]_vars

C30_Witness ==
    /\ pc = "exited"
    /\ last.kind = "none"
    /\ conf.GotifyToken = ""
    /\ conf.GotifyURL # ""
    /\ conf.FeedURL # ""
    /\ conf.MastodonURL # ""
    /\ conf.MastodonAccessToken # ""

====
